---- MODULE Spec2Model ----
(***************************************************************************)
(* Model of the IntelliJ SFCC configuration source                         *)
(* (src/src/sources/intellij-source.ts): IntelliJSource.load, getPath,     *)
(* getConnectionSettings, decryptCredentials, findPassword and             *)
(* findClientSecret.                                                       *)
(*                                                                         *)
(* JavaScript values are modelled as follows.  A string-valued field holds *)
(* a string; `undefined` (a missing property) is the string Absent.  The   *)
(* empty string "" is a value of its own: it is present but falsy.  Flags  *)
(* (useOcapi, active, isGroup) are BOOLEAN, a missing flag being FALSE.    *)
(* An optional array is a flag (hasConfigs, hasAccessKeys, ...) and a      *)
(* sequence.  A thrown exception is an outcome of kind "throw".            *)
(***************************************************************************)
EXTENDS Integers, Sequences, FiniteSets, TLC

VARIABLES
    env,              \* process.env and process.cwd()
    projectFiles,     \* contents of the settings files, by path
    credentialsFile,  \* contents of the credentials file
    projectFilePath,  \* the private field of each IntelliJSource object
    ret,              \* per source object: its most recent load, with its inputs
    call,             \* a direct call of findPassword
    phase             \* "edit": inputs are being written; "run": they are read

vars == <<env, projectFiles, credentialsFile, projectFilePath, ret, call, phase>>

----------------------------------------------------------------------------
(* JavaScript values *)

Absent == "<absent>"

\* JavaScript truthiness of an optional string
Truthy(s) == s # Absent /\ s # ""

DEFAULT_PROJECT_FILE == "/.idea/misc.xml"
DEFAULT_ALGORITHM == "aes-192-ecb"

CredentialsPath == "/home/.intellij-sfcc-credentials"

\* path.join(cwd, './.idea/misc.xml')
Join(cwd) == cwd \o DEFAULT_PROJECT_FILE

----------------------------------------------------------------------------
(* IntellijConnection: one entry of ConnectionSettings.source or of a      *)
(* group's configs.  isNull marks a JSON null in the place of a record.    *)

Conn(name, hostname, username, clientId, useOcapi, active, isGroup, hasConfigs, configs) ==
    [isNull |-> FALSE, name |-> name, hostname |-> hostname,
     secureHostname |-> IF hostname = Absent THEN Absent ELSE "dav-" \o hostname,
     username |-> username,
     codeVersion |-> IF name = Absent THEN Absent ELSE "v-" \o name,
     clientId |-> clientId,
     shortCode |-> IF name = Absent THEN Absent ELSE "sc-" \o name,
     useOcapi |-> useOcapi, active |-> active, isGroup |-> isGroup,
     hasConfigs |-> hasConfigs, configs |-> configs]

NullConn ==
    [isNull |-> TRUE, name |-> Absent, hostname |-> Absent, secureHostname |-> Absent,
     username |-> Absent, codeVersion |-> Absent, clientId |-> Absent,
     shortCode |-> Absent, useOcapi |-> FALSE, active |-> FALSE, isGroup |-> FALSE,
     hasConfigs |-> FALSE, configs |-> <<>>]

----------------------------------------------------------------------------
(* The settings file.  kind says how far getConnectionSettings gets:       *)
(*   "missing"      existsSync is false                                    *)
(*   "noProject"    the document has no project element                    *)
(*   "noComponent"  no IntellijSFCCConnectionSettings component            *)
(*   "noJson"       no "json" option, or an empty value                    *)
(*   "badJson"      JSON.parse throws                                      *)
(*   "jsonNull"     the JSON text is null                                  *)
(*   "noSource"     an object without source, or source without a length   *)
(*   "sourceString" source is a non-empty string                           *)
(*   "sourceList"   source is the array `source`                           *)

SettingsFile(kind, source) == [kind |-> kind, source |-> source]

\* getConnectionSettings(filename): the parsed settings, defined = FALSE for undefined
getConnectionSettings(file) ==
    IF file.kind \in {"missing", "noProject", "noComponent", "noJson", "badJson"}
    THEN [defined |-> FALSE, isNull |-> FALSE, shape |-> "none", source |-> <<>>]
    ELSE IF file.kind = "jsonNull"
    THEN [defined |-> TRUE, isNull |-> TRUE, shape |-> "none", source |-> <<>>]
    ELSE IF file.kind = "noSource"
    THEN [defined |-> TRUE, isNull |-> FALSE, shape |-> "none", source |-> <<>>]
    ELSE IF file.kind = "sourceString"
    THEN [defined |-> TRUE, isNull |-> FALSE, shape |-> "string", source |-> <<>>]
    ELSE [defined |-> TRUE, isNull |-> FALSE, shape |-> "list", source |-> file.source]

\* !connectionSettings?.source?.length
NoSourceLength(settings) ==
    \/ ~settings.defined
    \/ settings.isNull
    \/ settings.shape = "none"
    \/ settings.shape = "list" /\ Len(settings.source) = 0

----------------------------------------------------------------------------
(* Connection Resolver *)

\* the callback of flatMap: source.isGroup && source.configs ? source.configs : [source]
FlattenOne(source) ==
    IF source.isGroup /\ source.hasConfigs THEN source.configs ELSE <<source>>

RECURSIVE Flatten(_)
\* connectionSettings.source.flatMap(...)
Flatten(source) ==
    IF source = <<>> THEN <<>>
    ELSE FlattenOne(Head(source)) \o Flatten(Tail(source))

\* String.prototype.toLowerCase on the names in use
ToLowerCase(str) == IF str = "A" THEN "a" ELSE str

\* a comparison that folds case
NameMatchesIgnoreCase(c, instance) == ToLowerCase(c.name) = ToLowerCase(instance)

\* c.name === options.instance
NameMatches(c, instance) == c.name = instance

\* c.active
IsActive(c) == c.active

RECURSIVE FindLastFrom(_, _, _, _)
\* a search that keeps the last match instead of the first
FindLastFrom(all, byName, instance, i) ==
    IF i > Len(all) THEN 0
    ELSE IF all[i].isNull THEN -1
    ELSE LET later == FindLastFrom(all, byName, instance, i + 1)
         IN  IF later # 0 THEN later
             ELSE IF (IF byName THEN all[i].name = instance ELSE all[i].active) THEN i
             ELSE 0

RECURSIVE FindFrom(_, _, _, _)
\* Array.prototype.find from index i on: the index of the first match, 0 when
\* there is none, -1 when the callback reads a property of null first
FindFrom(all, byName, instance, i) ==
    IF i > Len(all) THEN 0
    ELSE IF all[i].isNull THEN -1
    ELSE IF (IF byName THEN NameMatches(all[i], instance) ELSE IsActive(all[i])) THEN i
    ELSE FindFrom(all, byName, instance, i + 1)

\* if (options.instance) find by name, else find by the active flag
FindConnection(all, instance) == FindFrom(all, Truthy(instance), instance, 1)

----------------------------------------------------------------------------
(* Credentials: the decrypted JSON.  keys maps a hostname to the value of  *)
(* its "WebDAV" entry, Absent when the host has no such entry.             *)

Throw == "<TypeError>"

AccessKeySet(username, hasKeys, keys) ==
    [username |-> username, hasKeys |-> hasKeys, keys |-> keys]

Account(username, password, hasAccessKeys, accessKeys) ==
    [username |-> username, password |-> password,
     hasAccessKeys |-> hasAccessKeys, accessKeys |-> accessKeys]

OcapiKey(clientId, clientSecret) == [clientId |-> clientId, clientSecret |-> clientSecret]

Credentials(hasAccounts, accounts, hasOcapiKeys, ocapiKeys) ==
    [hasAccounts |-> hasAccounts, accounts |-> accounts,
     hasOcapiKeys |-> hasOcapiKeys, ocapiKeys |-> ocapiKeys]

NoCredentials == Credentials(FALSE, <<>>, FALSE, <<>>)

RECURSIVE FindUsername(_, _, _)
\* list.find((x) => x.username === username) from index i on: an index, or 0
FindUsername(list, username, i) ==
    IF i > Len(list) THEN 0
    ELSE IF list[i].username = username THEN i
    ELSE FindUsername(list, username, i + 1)

\* hostKeys?.WebDAV for hostKeys = accessKeySet.keys[hostname]
WebDAVKey(accessKeySet, hostname) ==
    IF hostname \in DOMAIN accessKeySet.keys THEN accessKeySet.keys[hostname] ELSE Absent

\* a lookup that prefers the plain password to the access key
AccountPasswordFirst(account, username, hostname) ==
    LET k == IF account.hasAccessKeys
             THEN FindUsername(account.accessKeys, username, 1) ELSE 0
    IN  IF account.password # Absent THEN account.password
        ELSE IF k # 0 /\ account.accessKeys[k].hasKeys
           /\ Truthy(WebDAVKey(account.accessKeys[k], hostname))
        THEN WebDAVKey(account.accessKeys[k], hostname)
        ELSE account.password

\* the part of findPassword after the account is found
AccountPassword(account, username, hostname) ==
    LET k == IF account.hasAccessKeys
             THEN FindUsername(account.accessKeys, username, 1) ELSE 0
    IN  IF k # 0 /\ account.accessKeys[k].hasKeys
           /\ Truthy(WebDAVKey(account.accessKeys[k], hostname))
        THEN WebDAVKey(account.accessKeys[k], hostname)
        ELSE account.password

\* findPassword(credentials, username, hostname); Throw when credentials.accounts
\* is undefined
findPassword(credentials, username, hostname) ==
    IF ~credentials.hasAccounts THEN Throw
    ELSE LET a == FindUsername(credentials.accounts, username, 1)
         IN  IF a = 0 THEN Absent
             ELSE AccountPassword(credentials.accounts[a], username, hostname)

RECURSIVE FindClientId(_, _, _)
\* ocapiKeys.find((k) => k.clientId === clientId) from index i on: an index, or 0
FindClientId(ocapiKeys, clientId, i) ==
    IF i > Len(ocapiKeys) THEN 0
    ELSE IF ocapiKeys[i].clientId = clientId THEN i
    ELSE FindClientId(ocapiKeys, clientId, i + 1)

\* findClientSecret(credentials, clientId); Throw when credentials.ocapiKeys is
\* undefined
findClientSecret(credentials, clientId) ==
    IF ~credentials.hasOcapiKeys THEN Throw
    ELSE LET k == FindClientId(credentials.ocapiKeys, clientId, 1)
         IN  IF k = 0 THEN Absent ELSE credentials.ocapiKeys[k].clientSecret

----------------------------------------------------------------------------
(* The credentials file.  kind "missing": existsSync is false.  Otherwise  *)
(* the file holds text: "truncated" is text that is no base64 of whole     *)
(* cipher blocks, "cipher" is the encryption under (key, algorithm) of the *)
(* JSON text `json`: "badJson" (not JSON), "null", or "object" (the        *)
(* object `store`).                                                        *)

CredentialsFile(kind, key, algorithm, json, store) ==
    [kind |-> kind, key |-> key, algorithm |-> algorithm, json |-> json, store |-> store]

MissingCredentialsFile == CredentialsFile("missing", Absent, Absent, "badJson", NoCredentials)

\* decryptCredentials(cipherText, key, algorithm): truthy = FALSE for undefined
\* (the catch) and for null
decryptCredentials(cipherText, key, algorithm) ==
    IF \/ cipherText.kind # "cipher"
       \/ key # cipherText.key
       \/ algorithm # cipherText.algorithm
       \/ cipherText.json # "object"
    THEN [truthy |-> FALSE, store |-> NoCredentials]
    ELSE [truthy |-> TRUE, store |-> cipherText.store]

----------------------------------------------------------------------------
(* Config Assembler *)

NormalizedConfig(hostname, webdavHostname, username, codeVersion, shortCode, clientId, password, clientSecret) ==
    [hostname |-> hostname, webdavHostname |-> webdavHostname, username |-> username,
     codeVersion |-> codeVersion, shortCode |-> shortCode, clientId |-> clientId,
     password |-> password, clientSecret |-> clientSecret]

NoConfig == NormalizedConfig(Absent, Absent, Absent, Absent, Absent, Absent, Absent, Absent)

\* the object literal built from the connection
BaseConfig(connection) ==
    NormalizedConfig(connection.hostname, connection.secureHostname, connection.username,
                     connection.codeVersion, connection.shortCode, Absent, Absent, Absent)

\* an assembler that copies clientId whatever useOcapi says
WithClientIdAlways(config, connection) ==
    IF Truthy(connection.clientId)
    THEN [config EXCEPT !.clientId = connection.clientId]
    ELSE config

\* if (connection.useOcapi && connection.clientId) config.clientId = connection.clientId
WithClientId(config, connection) ==
    IF connection.useOcapi /\ Truthy(connection.clientId)
    THEN [config EXCEPT !.clientId = connection.clientId]
    ELSE config

\* process.env.SFCC_INTELLIJ_ALGORITHM ?? DEFAULT_ALGORITHM
Algorithm(e) ==
    IF e.SFCC_INTELLIJ_ALGORITHM = Absent THEN DEFAULT_ALGORITHM ELSE e.SFCC_INTELLIJ_ALGORITHM

\* credentialsFile && credentialsKey && existsSync(credentialsFile)
CredentialsConfigured(e, cfile) ==
    /\ Truthy(e.SFCC_INTELLIJ_CREDENTIALS_FILE)
    /\ Truthy(e.SFCC_INTELLIJ_CREDENTIALS_KEY)
    /\ e.SFCC_INTELLIJ_CREDENTIALS_FILE = CredentialsPath
    /\ cfile.kind # "missing"

\* a lookup that asks for the username only, not for the hostname
PasswordLookupAnyHost(connection, credentials) ==
    IF Truthy(connection.username)
    THEN LET password == findPassword(credentials, connection.username, connection.hostname)
         IN  IF password = Throw THEN Throw
             ELSE IF Truthy(password) THEN password ELSE Absent
    ELSE Absent

\* the password lookup: the password to set, Absent to set none, Throw
PasswordLookup(connection, credentials) ==
    IF Truthy(connection.username) /\ Truthy(connection.hostname)
    THEN LET password == findPassword(credentials, connection.username, connection.hostname)
         IN  IF password = Throw THEN Throw
             ELSE IF Truthy(password) THEN password ELSE Absent
    ELSE Absent

\* the client secret lookup: the secret to set, Absent to set none, Throw
ClientSecretLookup(config, credentials) ==
    IF Truthy(config.clientId)
    THEN LET clientSecret == findClientSecret(credentials, config.clientId)
         IN  IF clientSecret = Throw THEN Throw
             ELSE IF Truthy(clientSecret) THEN clientSecret ELSE Absent
    ELSE Absent

\* load from "Build base config" on: [kind, config]
Assemble(connection, e, cfile) ==
    LET config == WithClientId(BaseConfig(connection), connection)
        credentials == decryptCredentials(cfile, e.SFCC_INTELLIJ_CREDENTIALS_KEY, Algorithm(e))
    IN  IF CredentialsConfigured(e, cfile) /\ credentials.truthy
        THEN LET password == PasswordLookup(connection, credentials.store)
             IN  IF password = Throw THEN [kind |-> "throw", config |-> NoConfig]
                 ELSE LET clientSecret == ClientSecretLookup(config, credentials.store)
                      IN  IF clientSecret = Throw THEN [kind |-> "throw", config |-> NoConfig]
                          ELSE [kind |-> "config",
                                config |-> [config EXCEPT !.password = password,
                                                          !.clientSecret = clientSecret]]
        ELSE [kind |-> "config", config |-> config]

\* process.env.SFCC_INTELLIJ_PROJECT_FILE ?? join(process.cwd(), DEFAULT_PROJECT_FILE)
ProjectFile(e) ==
    IF e.SFCC_INTELLIJ_PROJECT_FILE = Absent THEN Join(e.cwd) ELSE e.SFCC_INTELLIJ_PROJECT_FILE

\* the file system's answer for a settings path
ReadProjectFile(pfiles, path) ==
    IF path \in DOMAIN pfiles THEN pfiles[path] ELSE SettingsFile("missing", <<>>)

Outcome(kind, config, all, index) ==
    [kind |-> kind, config |-> config, all |-> all, index |-> index]

\* load(options) from "Parse connection settings" on.  kind is "absent" (returns
\* undefined), "config" or "throw"; all is allConnections and index the place of
\* the resolved connection in it (0: none)
LoadOutcome(instance, projectFile, e, pfiles, cfile) ==
    LET connectionSettings == getConnectionSettings(ReadProjectFile(pfiles, projectFile))
    IN  IF NoSourceLength(connectionSettings) THEN Outcome("absent", NoConfig, <<>>, 0)
        ELSE IF connectionSettings.shape # "list" THEN Outcome("throw", NoConfig, <<>>, 0)
        ELSE IF \E i \in 1..Len(connectionSettings.source) : connectionSettings.source[i].isNull
        THEN Outcome("throw", NoConfig, <<>>, 0)
        ELSE LET allConnections == Flatten(connectionSettings.source)
                 index == FindConnection(allConnections, instance)
             IN  IF index = -1 THEN Outcome("throw", NoConfig, allConnections, 0)
                 ELSE IF index = 0 THEN Outcome("absent", NoConfig, allConnections, 0)
                 ELSE LET built == Assemble(allConnections[index], e, cfile)
                      IN  Outcome(built.kind, built.config, allConnections, index)

----------------------------------------------------------------------------
(* The source objects and their operations *)

Sources == {"s1", "s2"}

Env(cwd, projectFile, credentialsFilePath, credentialsKey, algorithm) ==
    [cwd |-> cwd, SFCC_INTELLIJ_PROJECT_FILE |-> projectFile,
     SFCC_INTELLIJ_CREDENTIALS_FILE |-> credentialsFilePath,
     SFCC_INTELLIJ_CREDENTIALS_KEY |-> credentialsKey,
     SFCC_INTELLIJ_ALGORITHM |-> algorithm]

Cwd == "/w"
AltProjectFile == "/alt/misc.xml"

\* the record of one load: its inputs, the path it read, and what it did
LoadRecord(instance, e, pfiles, cfile, path, outcome) ==
    [loaded |-> TRUE, instance |-> instance, env |-> e, projectFiles |-> pfiles,
     credentialsFile |-> cfile, path |-> path, kind |-> outcome.kind,
     config |-> outcome.config, all |-> outcome.all, index |-> outcome.index]

NotLoaded ==
    [loaded |-> FALSE, instance |-> Absent, env |-> Env(Cwd, Absent, Absent, Absent, Absent),
     projectFiles |-> <<>>, credentialsFile |-> MissingCredentialsFile, path |-> Absent,
     kind |-> "none", config |-> NoConfig, all |-> <<>>, index |-> 0]

\* a load that computes the path once and reuses the stored one afterwards
CachedProjectFile(stored, e) == IF stored # Absent THEN stored ELSE ProjectFile(e)

\* const projectFile = process.env.SFCC_INTELLIJ_PROJECT_FILE ?? join(...), computed
\* by every load whatever this.projectFilePath holds
LocalProjectFile(stored, e) == ProjectFile(e)

\* a load that stores the path only once settings were found
PathAfterSettings(stored, projectFile, outcome) ==
    IF outcome.kind = "absent" /\ outcome.all = <<>> THEN stored ELSE projectFile

\* this.projectFilePath = projectFile, before anything can return or throw
PathAfterLoad(stored, projectFile, outcome) == projectFile

\* load(options) on the source object self
Load(self, instance) ==
    /\ phase \in {"run", "live"}
    /\ LET projectFile == LocalProjectFile(projectFilePath[self], env)
           outcome == LoadOutcome(instance, projectFile, env, projectFiles, credentialsFile)
       IN  /\ projectFilePath' = [projectFilePath EXCEPT
                                    ![self] = PathAfterLoad(@, projectFile, outcome)]
           /\ ret' = [ret EXCEPT ![self] = LoadRecord(instance, env, projectFiles,
                                                      credentialsFile, projectFile, outcome)]
    /\ UNCHANGED <<env, projectFiles, credentialsFile, call, phase>>

\* getPath()
getPath(self) == projectFilePath[self]

----------------------------------------------------------------------------
(* The environment: whoever writes the files and sets process.env *)

NoCall == [done |-> FALSE, username |-> Absent, hostname |-> Absent, result |-> Absent]

\* the source objects as constructed, with no credentials configured
Constructed ==
    /\ projectFilePath = [s \in Sources |-> Absent]
    /\ ret = [s \in Sources |-> NotLoaded]
    /\ call = NoCall

\* the inputs are complete: from now on they are only read
Freeze ==
    /\ phase = "edit"
    /\ phase' = "run"
    /\ UNCHANGED <<env, projectFiles, credentialsFile, projectFilePath, ret, call>>

----------------------------------------------------------------------------
(* Specification SpecResolve: a settings list is written entry by entry,   *)
(* then load resolves connections from it with no credentials configured.  *)

MaxSettings == 3

Names == {"a", "A"}
Instances == {Absent, "", "a", "ab"}

TopRecords ==
    {Conn(n, "h", "u", Absent, FALSE, a, g, hc, <<>>) :
        n \in Names, a \in BOOLEAN, g \in BOOLEAN, hc \in BOOLEAN}

ChildRecords ==
    {Conn(n, "h", "u", Absent, FALSE, a, g, FALSE, <<>>) :
        n \in Names, a \in BOOLEAN, g \in BOOLEAN}

RECURSIVE SettingsSize(_)
\* the number of records of a settings list, children included
SettingsSize(source) ==
    IF source = <<>> THEN 0
    ELSE 1 + Len(Head(source).configs) + SettingsSize(Tail(source))

TheSource == projectFiles[Join(Cwd)].source

\* the IDE appends a top-level connection or group
AddSource(c) ==
    /\ phase = "edit"
    /\ SettingsSize(TheSource) < MaxSettings
    /\ projectFiles' = [projectFiles EXCEPT ![Join(Cwd)].source = Append(@, c)]
    /\ UNCHANGED <<env, credentialsFile, projectFilePath, ret, call, phase>>

\* the IDE appends a child to the last entry's configs
AddChild(c) ==
    /\ phase = "edit"
    /\ SettingsSize(TheSource) < MaxSettings
    /\ TheSource # <<>>
    /\ TheSource[Len(TheSource)].hasConfigs
    /\ projectFiles' = [projectFiles EXCEPT
                          ![Join(Cwd)].source[Len(TheSource)].configs = Append(@, c)]
    /\ UNCHANGED <<env, credentialsFile, projectFilePath, ret, call, phase>>

InitResolve ==
    /\ env = Env(Cwd, Absent, Absent, Absent, Absent)
    /\ projectFiles = (Join(Cwd) :> SettingsFile("sourceList", <<>>))
    /\ credentialsFile = MissingCredentialsFile
    /\ phase = "edit"
    /\ Constructed

NextResolve ==
    \/ \E c \in TopRecords : AddSource(c)
    \/ \E c \in ChildRecords : AddChild(c)
    \/ Freeze
    \/ \E instance \in Instances : Load("s1", instance)

SpecResolve == InitResolve /\ [][NextResolve]_vars

\* the most recent load of source object s1
Last == ret["s1"]

\* the settings list the most recent load read
LastSource == Last.projectFiles[Last.path].source

(* C1: flattening replaces every group by exactly its children, in order,  *)
(* passes every other record through, and no record with isGroup = true is *)
(* ever resolved, also not a group without a child list or a group that is *)
(* a child of a group.                                                     *)
RECURSIVE ChildrenOnly(_)
ChildrenOnly(source) ==
    IF source = <<>> THEN <<>>
    ELSE (IF Head(source).isGroup THEN Head(source).configs ELSE <<Head(source)>>)
         \o ChildrenOnly(Tail(source))

C1_GroupNeverSelectable ==
    (Last.loaded /\ LastSource # <<>>) =>
        /\ Last.all = ChildrenOnly(LastSource)
        /\ Last.index # 0 => ~Last.all[Last.index].isGroup

(* C2: with an instance name given, the resolved connection is the first   *)
(* record of the flattened list whose name is exactly that name, and load  *)
(* returns absent when there is none, whatever the active flags are.       *)
C2_SelectByName ==
    (Last.loaded /\ Truthy(Last.instance)) =>
        LET hits == {i \in 1..Len(Last.all) : Last.all[i].name = Last.instance}
        IN  IF hits = {}
            THEN Last.kind = "absent" /\ Last.index = 0
            ELSE /\ Last.kind = "config"
                 /\ Last.index \in hits
                 /\ \A j \in hits : Last.index <= j
                 /\ Last.config.codeVersion = Last.all[Last.index].codeVersion

C2_Witness ==
    /\ Last.loaded /\ Last.instance = "a" /\ Last.kind = "config"
    /\ Last.index = 2
    /\ Last.all[1].name = "A" /\ Last.all[1].active
    /\ Len(LastSource) = 1

(* C3: with no instance name given, the resolved connection is the active  *)
(* record that comes first when the settings list is read in order, the    *)
(* children of a group standing at the place of their group; load returns  *)
(* absent when no such record is active.                                   *)
Places(source) ==
    {<<i, 0>> : i \in {k \in 1..Len(source) : ~(source[k].isGroup /\ source[k].hasConfigs)}}
    \cup UNION {{<<i, j>> : j \in 1..Len(source[i].configs)} :
                   i \in {k \in 1..Len(source) : source[k].isGroup /\ source[k].hasConfigs}}

RecordAt(source, p) == IF p[2] = 0 THEN source[p[1]] ELSE source[p[1]].configs[p[2]]

Before(p, q) == p[1] < q[1] \/ (p[1] = q[1] /\ p[2] < q[2])

C3_SelectActive ==
    (Last.loaded /\ ~Truthy(Last.instance)) =>
        LET active == {p \in Places(LastSource) : RecordAt(LastSource, p).active}
        IN  IF active = {}
            THEN Last.kind = "absent" /\ Last.index = 0
            ELSE LET first == CHOOSE p \in active : \A q \in active : p = q \/ Before(p, q)
                 IN  /\ Last.kind = "config"
                     /\ Last.index = Cardinality({q \in Places(LastSource) : Before(q, first)}) + 1
                     /\ Last.all[Last.index] = RecordAt(LastSource, first)
                     /\ Last.config.codeVersion = RecordAt(LastSource, first).codeVersion

C3_Witness ==
    /\ Last.loaded /\ Last.instance = Absent /\ Last.kind = "config"
    /\ Len(LastSource) = 2
    /\ LastSource[1].isGroup /\ LastSource[1].hasConfigs /\ Len(LastSource[1].configs) = 1
    /\ LastSource[1].configs[1].active
    /\ LastSource[2].active /\ ~LastSource[2].isGroup
    /\ Last.index = 1

----------------------------------------------------------------------------
(* Specification SpecPassword: a credential store is written entry by      *)
(* entry, then findPassword is called on it.                               *)

MaxStore == 4

Usernames == {"u", "v"}
Hosts == {"h", "g"}

AccountRecords ==
    {Account(u, p, hk, <<>>) : u \in Usernames, p \in {Absent, "p"}, hk \in BOOLEAN}

AccessKeySets ==
    {AccessKeySet(u, FALSE, <<>>) : u \in Usernames}
    \cup {AccessKeySet(u, TRUE, ("h" :> k) @@ ("g" :> "kg")) :
             u \in Usernames, k \in {Absent, "", "kh"}}

RECURSIVE StoreSize(_)
\* the number of accounts and access-key sets of a list of accounts
StoreSize(accounts) ==
    IF accounts = <<>> THEN 0
    ELSE 1 + Len(Head(accounts).accessKeys) + StoreSize(Tail(accounts))

TheAccounts == credentialsFile.store.accounts

\* the IDE appends an account
AddAccount(a) ==
    /\ phase = "edit"
    /\ StoreSize(TheAccounts) < MaxStore
    /\ credentialsFile' = [credentialsFile EXCEPT !.store.accounts = Append(@, a)]
    /\ UNCHANGED <<env, projectFiles, projectFilePath, ret, call, phase>>

\* the IDE appends an access-key set to the last account
AddAccessKeySet(k) ==
    /\ phase = "edit"
    /\ StoreSize(TheAccounts) < MaxStore
    /\ TheAccounts # <<>>
    /\ TheAccounts[Len(TheAccounts)].hasAccessKeys
    /\ credentialsFile' = [credentialsFile EXCEPT
                             !.store.accounts[Len(TheAccounts)].accessKeys = Append(@, k)]
    /\ UNCHANGED <<env, projectFiles, projectFilePath, ret, call, phase>>

\* findPassword(credentials, username, hostname) on the decrypted store
CallFindPassword(username, hostname) ==
    /\ phase = "run"
    /\ call' = [done |-> TRUE, username |-> username, hostname |-> hostname,
                result |-> findPassword(credentialsFile.store, username, hostname)]
    /\ UNCHANGED <<env, projectFiles, credentialsFile, projectFilePath, ret, phase>>

InitPassword ==
    /\ env = Env(Cwd, Absent, CredentialsPath, "k1", Absent)
    /\ projectFiles = (Join(Cwd) :> SettingsFile("missing", <<>>))
    /\ credentialsFile = CredentialsFile("cipher", "k1", DEFAULT_ALGORITHM, "object",
                                         Credentials(TRUE, <<>>, TRUE, <<>>))
    /\ phase = "edit"
    /\ Constructed

NextPassword ==
    \/ \E a \in AccountRecords : AddAccount(a)
    \/ \E k \in AccessKeySets : AddAccessKeySet(k)
    \/ Freeze
    \/ \E hostname \in Hosts : CallFindPassword("u", hostname)

SpecPassword == InitPassword /\ [][NextPassword]_vars

\* the indices of the accounts with the username of the call
CallAccounts == {i \in 1..Len(TheAccounts) : TheAccounts[i].username = call.username}

\* the first account with the username of the call
CallAccount == TheAccounts[CHOOSE i \in CallAccounts : \A j \in CallAccounts : i <= j]

\* the indices of the access-key sets of that account with the same username
CallKeySets ==
    {k \in 1..Len(CallAccount.accessKeys) : CallAccount.accessKeys[k].username = call.username}

\* the WebDAV entry for the hostname of the call in the first such access-key
\* set, Absent when there is no set, no keys or no entry
CallWebDAV ==
    IF CallKeySets = {} THEN Absent
    ELSE LET set == CallAccount.accessKeys[CHOOSE k \in CallKeySets : \A j \in CallKeySets : k <= j]
         IN  IF set.hasKeys /\ call.hostname \in DOMAIN set.keys
             THEN set.keys[call.hostname] ELSE Absent

(* C4 as stated: findPassword returns absent when no account has the       *)
(* username; otherwise the WebDAV entry for the hostname whenever the      *)
(* access-key set defines one, and otherwise the account's plain password. *)
C4_AnyDefinedKeyWins ==
    call.done =>
        IF CallAccounts = {} THEN call.result = Absent
        ELSE IF CallWebDAV # Absent THEN call.result = CallWebDAV
        ELSE call.result = CallAccount.password

(* C4 amended: findPassword returns absent when no account has the         *)
(* username; otherwise, for the first account with that username, the      *)
(* WebDAV entry for the hostname of its first access-key set with the same *)
(* username whenever that entry is a non-empty string, whatever the plain  *)
(* password is; and otherwise the account's plain password, maybe absent.  *)
C4_FindPassword ==
    call.done =>
        IF CallAccounts = {} THEN call.result = Absent
        ELSE IF Truthy(CallWebDAV) THEN call.result = CallWebDAV
        ELSE call.result = CallAccount.password

C4_Witness ==
    /\ call.done /\ call.hostname = "h" /\ call.result = "kh"
    /\ Len(TheAccounts) = 2
    /\ TheAccounts[1].username = "v"
    /\ TheAccounts[2].password = "p"

----------------------------------------------------------------------------
(* Specification SpecLoad: one load on every combination of a settings     *)
(* file, a credentials file and the credential environment variables.      *)

LoadConnections ==
    {Conn("a", h, u, c, o, TRUE, FALSE, FALSE, <<>>) :
        h \in {Absent, "", "h"}, u \in {Absent, "", "u"}, c \in {Absent, "", "c"},
        o \in BOOLEAN}

FullConnection == Conn("a", "h", "u", "c", TRUE, TRUE, FALSE, FALSE, <<>>)

LoadSettings ==
    {SettingsFile(k, <<>>) : k \in {"missing", "noProject", "noComponent", "noJson", "badJson",
                                    "jsonNull", "noSource", "sourceString", "sourceList"}}
    \cup {SettingsFile("sourceList", <<c>>) : c \in LoadConnections}
    \cup {SettingsFile("sourceList", <<NullConn>>),
          SettingsFile("sourceList", <<FullConnection, NullConn>>),
          SettingsFile("sourceList",
                       <<Conn("g", Absent, Absent, Absent, FALSE, FALSE, TRUE, TRUE,
                              <<NullConn, FullConnection>>)>>)}

LoadAccounts ==
    {<<>>,
     <<Account("u", "p", FALSE, <<>>)>>,
     <<Account("u", "", FALSE, <<>>)>>,
     <<Account("v", "p", FALSE, <<>>)>>,
     <<Account("u", Absent, TRUE, <<AccessKeySet("u", TRUE, ("h" :> "kh"))>>)>>,
     <<Account("u", "p", TRUE, <<AccessKeySet("u", TRUE, ("h" :> "kh"))>>)>>}

LoadOcapiKeys ==
    {<<>>,
     <<OcapiKey("c", "s")>>,
     <<OcapiKey("c", ""), OcapiKey("c", "s2")>>,
     <<OcapiKey("d", "s2"), OcapiKey("c", "s")>>}

LoadStores ==
    {Credentials(TRUE, a, TRUE, o) : a \in LoadAccounts, o \in LoadOcapiKeys}
    \cup {Credentials(FALSE, <<>>, TRUE, o) : o \in LoadOcapiKeys}
    \cup {Credentials(TRUE, a, FALSE, <<>>) : a \in LoadAccounts}
    \cup {NoCredentials}

LoadCredentials ==
    {MissingCredentialsFile,
     CredentialsFile("truncated", Absent, Absent, "badJson", NoCredentials),
     CredentialsFile("cipher", "k1", DEFAULT_ALGORITHM, "badJson", NoCredentials),
     CredentialsFile("cipher", "k1", DEFAULT_ALGORITHM, "null", NoCredentials)}
    \cup {CredentialsFile("cipher", "k1", a, "object", st) :
             a \in {DEFAULT_ALGORITHM, "aes-256-ecb"}, st \in LoadStores}

LoadEnvs ==
    {Env(Cwd, Absent, f, k, a) :
        f \in {Absent, "", CredentialsPath}, k \in {Absent, "", "k1", "k2"},
        a \in {Absent, "aes-256-ecb"}}

InitLoad ==
    /\ env \in LoadEnvs
    /\ projectFiles \in {(Join(Cwd) :> f) : f \in LoadSettings}
    /\ credentialsFile \in LoadCredentials
    /\ phase = "run"
    /\ Constructed

NextLoad == \E instance \in {Absent, "a"} : Load("s1", instance)

SpecLoad == InitLoad /\ [][NextLoad]_vars

\* the resolved connection of the most recent load
LastConnection == Last.all[Last.index]

\* the credentials file was configured, present and decrypted to an object
LastDecrypted ==
    /\ Last.env.SFCC_INTELLIJ_CREDENTIALS_FILE = CredentialsPath
    /\ Last.env.SFCC_INTELLIJ_CREDENTIALS_KEY \notin {Absent, ""}
    /\ Last.credentialsFile.kind = "cipher"
    /\ Last.credentialsFile.key = Last.env.SFCC_INTELLIJ_CREDENTIALS_KEY
    /\ Last.credentialsFile.algorithm =
           (IF Last.env.SFCC_INTELLIJ_ALGORITHM = Absent THEN "aes-192-ecb"
            ELSE Last.env.SFCC_INTELLIJ_ALGORITHM)
    /\ Last.credentialsFile.json = "object"

LastStore == Last.credentialsFile.store

(* C5: in every config load returns, clientId is present exactly when the  *)
(* resolved connection has useOcapi = true and a non-empty clientId, and   *)
(* is then the connection's clientId, whatever the credential store holds. *)
C5_ClientId ==
    (Last.loaded /\ Last.kind = "config") =>
        IF LastConnection.useOcapi /\ LastConnection.clientId \notin {Absent, ""}
        THEN Last.config.clientId = LastConnection.clientId
        ELSE Last.config.clientId = Absent

C5_Witness ==
    /\ Last.loaded /\ Last.kind = "config" /\ LastDecrypted
    /\ ~LastConnection.useOcapi /\ LastConnection.clientId = "c"
    /\ LastStore.hasOcapiKeys /\ LastStore.ocapiKeys = <<OcapiKey("c", "s")>>
    /\ Last.config.clientId = Absent

(* C6: whatever is wrong with the settings file (missing, no component, no *)
(* json option, invalid JSON, or JSON that is no list of connection        *)
(* records, such as a non-list source or a null entry), load raises no     *)
(* exception and returns absent.                                           *)
NoListOfRecords(file) ==
    \/ file.kind # "sourceList"
    \/ \E i \in 1..Len(file.source) :
          \/ file.source[i].isNull
          \/ \E j \in 1..Len(file.source[i].configs) : file.source[i].configs[j].isNull

C6_BadSettingsGiveAbsent ==
    (Last.loaded /\ NoListOfRecords(Last.projectFiles[Last.path])) => Last.kind = "absent"

(* C7: once a connection has resolved, load returns a config whatever the  *)
(* credential inputs are, with the base fields and clientId it has when no *)
(* credentials are configured; a failed decryption leaves password and     *)
(* clientSecret unset.                                                     *)
C7_CredentialsNeverFail ==
    (Last.loaded /\ Last.index # 0) =>
        /\ Last.kind = "config"
        /\ Last.config.hostname = LastConnection.hostname
        /\ Last.config.webdavHostname = LastConnection.secureHostname
        /\ Last.config.username = LastConnection.username
        /\ Last.config.codeVersion = LastConnection.codeVersion
        /\ Last.config.shortCode = LastConnection.shortCode
        /\ ~LastDecrypted => Last.config.password = Absent /\ Last.config.clientSecret = Absent

(* C9: a password in a returned config comes from a decrypted store, for a *)
(* connection with username and hostname, and is what findPassword gives;  *)
(* a clientSecret comes with a clientId and is the clientSecret of the     *)
(* first ocapiKeys entry with that clientId.                               *)
C9_SecretsFromStore ==
    (Last.loaded /\ Last.kind = "config") =>
        /\ Last.config.password # Absent =>
              /\ LastDecrypted
              /\ LastConnection.username \notin {Absent, ""}
              /\ LastConnection.hostname \notin {Absent, ""}
              /\ Last.config.password =
                     findPassword(LastStore, LastConnection.username, LastConnection.hostname)
        /\ Last.config.clientSecret # Absent =>
              /\ LastDecrypted
              /\ Last.config.clientId # Absent
              /\ LET hits == {i \in 1..Len(LastStore.ocapiKeys) :
                                 LastStore.ocapiKeys[i].clientId = Last.config.clientId}
                 IN  /\ hits # {}
                     /\ \E i \in hits : /\ \A j \in hits : i <= j
                                        /\ Last.config.clientSecret =
                                               LastStore.ocapiKeys[i].clientSecret

C9_Witness ==
    /\ Last.loaded /\ Last.kind = "config"
    /\ Last.config.password = "kh" /\ Last.config.clientSecret = "s"
    /\ Len(LastStore.ocapiKeys) = 2

----------------------------------------------------------------------------
(* Specification Spec: two source objects, as two invocations of the hook  *)
(* make them, load again and again while the files and the environment     *)
(* change between the calls.                                               *)

LiveSettings ==
    {SettingsFile("missing", <<>>),
     SettingsFile("sourceList", <<Conn("a", "h", "u", "c", TRUE, TRUE, FALSE, FALSE, <<>>)>>),
     SettingsFile("sourceList", <<Conn("a", "h2", "u", Absent, FALSE, FALSE, FALSE, FALSE, <<>>)>>)}

LiveCredentials ==
    {MissingCredentialsFile,
     CredentialsFile("cipher", "k1", DEFAULT_ALGORITHM, "object",
                     Credentials(TRUE, <<Account("u", "p", FALSE, <<>>)>>,
                                 TRUE, <<OcapiKey("c", "s")>>))}

\* the caller's environment sets or unsets SFCC_INTELLIJ_PROJECT_FILE
SetProjectFileEnv(value) ==
    /\ phase = "live"
    /\ env' = [env EXCEPT !.SFCC_INTELLIJ_PROJECT_FILE = value]
    /\ UNCHANGED <<projectFiles, credentialsFile, projectFilePath, ret, call, phase>>

\* the IDE rewrites, creates or removes a settings file
WriteProjectFile(path, content) ==
    /\ phase = "live"
    /\ projectFiles' = [projectFiles EXCEPT ![path] = content]
    /\ UNCHANGED <<env, credentialsFile, projectFilePath, ret, call, phase>>

\* the IDE rewrites, creates or removes the credentials file
WriteCredentialsFile(content) ==
    /\ phase = "live"
    /\ credentialsFile' = content
    /\ UNCHANGED <<env, projectFiles, projectFilePath, ret, call, phase>>

Init ==
    /\ env = Env(Cwd, Absent, CredentialsPath, "k1", Absent)
    /\ projectFiles = (Join(Cwd) :> SettingsFile("missing", <<>>))
                      @@ (AltProjectFile :> SettingsFile("missing", <<>>))
    /\ credentialsFile = MissingCredentialsFile
    /\ phase = "live"
    /\ Constructed

Next ==
    \/ \E value \in {Absent, AltProjectFile} : SetProjectFileEnv(value)
    \/ \E path \in {Join(Cwd), AltProjectFile}, content \in LiveSettings :
          WriteProjectFile(path, content)
    \/ \E content \in LiveCredentials : WriteCredentialsFile(content)
    \/ \E self \in Sources, instance \in {Absent, "a"} : Load(self, instance)

Spec == Init /\ [][Next]_vars

(* C8: getPath returns absent before the first load of a source object and *)
(* afterwards the settings file path its most recent load read, whether    *)
(* that load returned a config or absent, whatever happened since.         *)
C8_DiagnosticPath ==
    \A self \in Sources :
        getPath(self) = (IF ret[self].loaded THEN ret[self].path ELSE Absent)

C8_Witness ==
    /\ ret["s1"].loaded /\ ret["s1"].kind = "absent"
    /\ getPath("s1") = AltProjectFile
    /\ env.SFCC_INTELLIJ_PROJECT_FILE = Absent
    /\ ret["s2"].loaded /\ ret["s2"].kind = "config"
    /\ getPath("s2") = Join(Cwd)

(* C10: the result of a load depends only on the instance selector, the    *)
(* environment and the two files as they are at the call: any two loads    *)
(* with equal inputs, on source objects with different histories, read the *)
(* same path and return the same result; and no load changes a file.       *)
SameInputs(a, b) ==
    /\ a.instance = b.instance
    /\ a.env = b.env
    /\ a.projectFiles = b.projectFiles
    /\ a.credentialsFile = b.credentialsFile

C10_Deterministic ==
    \A s \in Sources, t \in Sources :
        (ret[s].loaded /\ ret[t].loaded /\ SameInputs(ret[s], ret[t])) =>
            /\ ret[s].path = ret[t].path
            /\ ret[s].kind = ret[t].kind
            /\ ret[s].config = ret[t].config

C10_ReadOnly ==
    (ret' # ret) => (projectFiles' = projectFiles /\ credentialsFile' = credentialsFile)

C10_NoCaching == []C10_Deterministic /\ [][C10_ReadOnly]_vars

C10_Witness ==
    /\ ret["s1"].loaded /\ ret["s2"].loaded
    /\ SameInputs(ret["s1"], ret["s2"])
    /\ ret["s1"].kind = "config" /\ ret["s1"].config.password = "p"
    /\ ret["s2"].path = AltProjectFile
    /\ ret["s1"].projectFiles[Join(Cwd)] # ret["s1"].projectFiles[AltProjectFile]

====
